---- MODULE Spec2Model ----
(***************************************************************************)
(* State-machine model of the manual TLS certificates operator charm       *)
(* (src/src/charm.py): the charm's construction, its install and           *)
(* certificate-creation-request handlers and its three actions, over the   *)
(* relation-backed Request Ledger of spec.md 4.2 and the Codec/Validator   *)
(* helpers of spec.md 4.1.                                                 *)
(***************************************************************************)
EXTENDS Integers, Sequences, FiniteSets, TLC

\* ---------------------------------------------------------------- bounds
\* Relation ids are handed out 1, 2, ... and never reused.
MaxRelations == 2
\* Requirer units of one relation.
MaxUnits == 2
\* CSR entries recorded in the whole ledger.
MaxCsrs == 2
\* The ledger under which every combination of the inputs is run.
MaxInputRelations == 1
MaxInputUnits == 1
MaxInputCsrs == 1

CERTIFICATES_RELATION == "certificates"

RelIds == 1..MaxRelations
\* Ids an operator may type: every id ever handed out and one that never is.
AnyRelIds == 1..(MaxRelations + 1)
Units(r) == {<<r, k>> : k \in 1..MaxUnits}

\* ------------------------------------------------------------ text, bytes
\* A text is a body, the sequence of its segments (PEM blocks and whatever
\* lies between them), and whether whitespace surrounds it; str.strip()
\* removes the surrounding whitespace and keeps the body.
Text(body, pad) == [body |-> body, pad |-> pad]
Strip(t) == [t EXCEPT !.pad = FALSE]

\* Bytes either are the UTF-8 encoding of a text or are not UTF-8 at all.
Utf8(t) == [utf8 |-> TRUE, text |-> t]
NonUtf8 == [utf8 |-> FALSE, text |-> Text(<<>>, FALSE)]
\* An action parameter either is base64 of some bytes or is not base64.
B64(b) == [b64 |-> TRUE, bytes |-> b]
NotB64 == [b64 |-> FALSE, bytes |-> NonUtf8]

Raise(e) == [ok |-> FALSE, exc |-> e, val |-> FALSE]
Return(v) == [ok |-> TRUE, exc |-> "none", val |-> v]

\* base64.b64decode: binascii.Error on input that is not base64.
b64decode(p) == IF p.b64 THEN Return(p.bytes) ELSE Raise("binascii.Error")
\* bytes.decode(): UnicodeDecodeError on bytes that are not UTF-8.
decode(b) == IF b.utf8 THEN Return(b.text) ELSE Raise("UnicodeDecodeError")
\* str.encode()
encode(t) == Utf8(t)

\* PEM bodies that parse as an X.509 certificate / as a CSR.
ValidCertBodies == {"certX", "certY", "caX", "caI", "caR"}
ValidCsrBodies == {"csrA", "csrB"}
\* Segments of a chain blob that are PEM CERTIFICATE blocks ("pemBad" is a
\* block whose delimiters are right and whose content does not parse).
PemBlocks == {"caI", "caR", "pemBad"}

\* helpers.certificate_is_valid: structural parse, never raises.
certificate_is_valid(b) ==
    b.utf8 /\ Len(b.text.body) = 1 /\ b.text.body[1] \in ValidCertBodies
\* helpers.certificate_signing_request_is_valid
certificate_signing_request_is_valid(b) ==
    b.utf8 /\ Len(b.text.body) = 1 /\ b.text.body[1] \in ValidCsrBodies
\* helpers.parse_ca_chain: the PEM blocks of the blob, in their order; what
\* lies outside the delimiters is dropped.
parse_ca_chain(t) ==
    LET block(s) == s \in PemBlocks
    IN [i \in 1..Len(SelectSeq(t.body, block)) |->
           Text(<<SelectSeq(t.body, block)[i]>>, FALSE)]

\* ------------------------------------------------------------------ state
VARIABLES
    leader,     \* self.unit.is_leader() at construction
    pc,         \* "start" | "ready" | "fatal"
    observers,  \* handlers registered with framework.observe
    relations,  \* self.model.relations["certificates"]: ids, creation order
    nextRel,    \* next relation id to hand out
    ledger,     \* relation id -> <<[unit, unit_csrs]>> in join order
    status,     \* self.unit.status
    event,      \* the action the operator has run and its params, until handled
    report      \* what the handler of the last hook reported, if one ran

vars == <<leader, pc, observers, relations, nextRel, ledger, status, event, report>>

NoCert == [issued |-> FALSE, certificate |-> Text(<<>>, FALSE),
           ca |-> Text(<<>>, FALSE), chain |-> <<>>]
Issued(certificate, ca, chain) ==
    [issued |-> TRUE, certificate |-> certificate, ca |-> ca, chain |-> chain]

NoParams == [relation_id |-> 0, certificate |-> NotB64, ca_certificate |-> NotB64,
             certificate_signing_request |-> NotB64, ca_chain |-> NotB64]
\* An ActionEvent waiting for its handler.
Event(name, params) == [name |-> name, params |-> params]
NoEvent == Event("none", NoParams)
\* event.fail(message) sets failed; event.set_results sets results (a
\* one-element sequence); an exception that leaves the handler sets raised;
\* validated tells whether the handler decoded and validated its input.
Report(name, failed, results, raised, validated) ==
    [name |-> name, failed |-> failed, results |-> results,
     raised |-> raised, validated |-> validated]
NoReport == Report("none", "none", <<>>, "none", FALSE)

Handlers == {"install", "certificate_creation_request",
             "get_outstanding_certificate_requests_action",
             "get_certificate_request_action", "provide_certificate_action"}

RELATION_NOT_CREATED == "No certificates relation has been created yet."
INPUT_NOT_VALID == "Action input is not valid."
RELATION_NOT_FOUND == "Relation does not exist with the provided id."
PROVIDED == "Certificates successfully provided."
READY == "Ready to provide certificates."
OUTSTANDING == "outstanding requests, use juju actions to provide certificates"
\* ActiveStatus(message); count is the number a message starts with, if any.
Status(message, count) == [message |-> message, count |-> count]

\* ------------------------------------------------------------ the ledger
RECURSIVE Concat(_)
Concat(ss) == IF ss = <<>> THEN <<>> ELSE Head(ss) \o Concat(Tail(ss))

\* Every unit group of the existing relations, relations in creation order.
AllGroups == Concat([i \in 1..Len(relations) |-> ledger[relations[i]]])

\* The CSR lists of the unit groups, one after the other.
UnitCsrs(groups) == Concat([i \in 1..Len(groups) |-> groups[i].unit_csrs])

EntryCount == Len(UnitCsrs(Concat([r \in RelIds |-> ledger[r]])))

IsOutstanding(e) == ~e.cert.issued

\* TLSCertificatesProvidesV2.get_requirer_csrs_with_no_certs
get_requirer_csrs_with_no_certs ==
    LET open(g) ==
            LET without == SelectSeq(g.unit_csrs, IsOutstanding)
            IN [unit |-> g.unit,
                unit_csrs |-> [j \in 1..Len(without) |-> without[j].csr]]
    IN SelectSeq([i \in 1..Len(AllGroups) |-> open(AllGroups[i])],
                 LAMBDA g : g.unit_csrs # <<>>)

\* TLSCertificatesProvidesV2.get_requirer_csrs(relation_id)
get_requirer_csrs(relation_id) ==
    IF \E i \in 1..Len(relations) : relations[i] = relation_id
    THEN Return(ledger[relation_id])
    ELSE Raise("RuntimeError")

\* set_relation_certificate keeping the certificate a FULFILLED CSR already
\* has and adding the new one to what is stored with it, instead of leaving
\* the entry alone.
SetAddsSecondCertificate(certificate_signing_request, certificate, ca, chain, relation_id) ==
    IF ~\E i \in 1..Len(relations) : relations[i] = relation_id
    THEN Raise("RuntimeError")
    ELSE LET attach(e) ==
                 IF e.csr # certificate_signing_request THEN e
                 ELSE IF IsOutstanding(e)
                 THEN [e EXCEPT !.cert = Issued(certificate, ca, chain)]
                 ELSE [e EXCEPT !.cert.chain = <<certificate>> \o @]
             group(g) == [g EXCEPT !.unit_csrs =
                             [j \in 1..Len(g.unit_csrs) |-> attach(g.unit_csrs[j])]]
         IN Return([ledger EXCEPT ![relation_id] =
                        [i \in 1..Len(@) |-> group(@[i])]])

\* TLSCertificatesProvidesV2.set_relation_certificate: the ledger after the
\* call, or the error it raises.
set_relation_certificate(certificate_signing_request, certificate, ca, chain, relation_id) ==
    IF ~\E i \in 1..Len(relations) : relations[i] = relation_id
    THEN Raise("RuntimeError")
    ELSE LET attach(e) ==
                 IF IsOutstanding(e) /\ e.csr = certificate_signing_request
                 THEN [e EXCEPT !.cert = Issued(certificate, ca, chain)]
                 ELSE e
             group(g) == [g EXCEPT !.unit_csrs =
                             [j \in 1..Len(g.unit_csrs) |-> attach(g.unit_csrs[j])]]
         IN Return([ledger EXCEPT ![relation_id] =
                        [i \in 1..Len(@) |-> group(@[i])]])

\* ------------------------------------------------------------ the charm
\* _relation_created testing the relation list against None instead of
\* testing whether it is empty.
RelationListIsNotNone(relation_name) == relation_name = CERTIFICATES_RELATION

\* TLSCertificatesOperatorCharm._relation_created
_relation_created(relation_name) ==
    IF relation_name = CERTIFICATES_RELATION THEN relations # <<>> ELSE FALSE

\* The texts of a list with every repetition of a text left out.
RECURSIVE Deduplicated(_)
Deduplicated(texts) ==
    IF texts = <<>> THEN <<>>
    ELSE LET front == Deduplicated(SubSeq(texts, 1, Len(texts) - 1))
             last == texts[Len(texts)]
         IN IF \E k \in 1..Len(front) : front[k] = last
            THEN front ELSE Append(front, last)

\* _get_outstanding_requests collecting the CSRs without repetition, as if
\* in a set.
OutstandingWithoutDuplicates ==
    Deduplicated(UnitCsrs(get_requirer_csrs_with_no_certs))

\* _get_outstanding_requests with one element for each unit that has
\* outstanding CSRs, not one for each CSR.
OutstandingUnits == get_requirer_csrs_with_no_certs

\* TLSCertificatesOperatorCharm._get_outstanding_requests
_get_outstanding_requests ==
    UnitCsrs(get_requirer_csrs_with_no_certs)


\* _action_certificates_are_valid with the check of the CSR left out.
ValidWithoutCsrCheck(certificate, ca_certificate, certificate_signing_request, ca_chain) ==
    LET certificate_bytes == b64decode(certificate)
        ca_certificate_bytes == b64decode(ca_certificate)
        csr_bytes == b64decode(certificate_signing_request)
        ca_chain_bytes == b64decode(ca_chain)
    IN IF ~(certificate_bytes.ok /\ ca_certificate_bytes.ok
            /\ csr_bytes.ok /\ ca_chain_bytes.ok)
       THEN Return(FALSE)
       ELSE IF ~certificate_is_valid(certificate_bytes.val) THEN Return(FALSE)
       ELSE IF ~certificate_is_valid(ca_certificate_bytes.val) THEN Return(FALSE)
       ELSE LET ca_chain_text == decode(ca_chain_bytes.val)
            IN IF ~ca_chain_text.ok
               THEN Raise(ca_chain_text.exc)
               ELSE LET ca_chain_list == parse_ca_chain(ca_chain_text.val)
                    IN Return(\A i \in 1..Len(ca_chain_list) :
                                  certificate_is_valid(encode(ca_chain_list[i])))

\* _action_certificates_are_valid taking a chain without any block for
\* invalid input.
ValidRejectsEmptyChain(certificate, ca_certificate, certificate_signing_request, ca_chain) ==
    LET certificate_bytes == b64decode(certificate)
        ca_certificate_bytes == b64decode(ca_certificate)
        csr_bytes == b64decode(certificate_signing_request)
        ca_chain_bytes == b64decode(ca_chain)
    IN IF ~(certificate_bytes.ok /\ ca_certificate_bytes.ok
            /\ csr_bytes.ok /\ ca_chain_bytes.ok)
       THEN Return(FALSE)
       ELSE IF ~certificate_is_valid(certificate_bytes.val) THEN Return(FALSE)
       ELSE IF ~certificate_is_valid(ca_certificate_bytes.val) THEN Return(FALSE)
       ELSE IF ~certificate_signing_request_is_valid(csr_bytes.val) THEN Return(FALSE)
       ELSE LET ca_chain_text == decode(ca_chain_bytes.val)
            IN IF ~ca_chain_text.ok
               THEN Raise(ca_chain_text.exc)
               ELSE LET ca_chain_list == parse_ca_chain(ca_chain_text.val)
                    IN Return(/\ ca_chain_list # <<>>
                              /\ \A i \in 1..Len(ca_chain_list) :
                                    certificate_is_valid(encode(ca_chain_list[i])))

\* _action_certificates_are_valid without the loop over the blocks of the
\* chain.
ValidWithoutChainCheck(certificate, ca_certificate, certificate_signing_request, ca_chain) ==
    LET certificate_bytes == b64decode(certificate)
        ca_certificate_bytes == b64decode(ca_certificate)
        csr_bytes == b64decode(certificate_signing_request)
        ca_chain_bytes == b64decode(ca_chain)
    IN IF ~(certificate_bytes.ok /\ ca_certificate_bytes.ok
            /\ csr_bytes.ok /\ ca_chain_bytes.ok)
       THEN Return(FALSE)
       ELSE IF ~certificate_is_valid(certificate_bytes.val) THEN Return(FALSE)
       ELSE IF ~certificate_is_valid(ca_certificate_bytes.val) THEN Return(FALSE)
       ELSE IF ~certificate_signing_request_is_valid(csr_bytes.val) THEN Return(FALSE)
       ELSE LET ca_chain_text == decode(ca_chain_bytes.val)
            IN IF ~ca_chain_text.ok
               THEN Raise(ca_chain_text.exc)
               ELSE Return(TRUE)

\* TLSCertificatesOperatorCharm._action_certificates_are_valid: the boolean
\* it returns, or the exception that leaves it.
_action_certificates_are_valid(certificate, ca_certificate, certificate_signing_request, ca_chain) ==
    LET certificate_bytes == b64decode(certificate)
        ca_certificate_bytes == b64decode(ca_certificate)
        csr_bytes == b64decode(certificate_signing_request)
        ca_chain_bytes == b64decode(ca_chain)
    IN IF ~(certificate_bytes.ok /\ ca_certificate_bytes.ok
            /\ csr_bytes.ok /\ ca_chain_bytes.ok)
       THEN Return(FALSE)
       ELSE IF ~certificate_is_valid(certificate_bytes.val) THEN Return(FALSE)
       ELSE IF ~certificate_is_valid(ca_certificate_bytes.val) THEN Return(FALSE)
       ELSE IF ~certificate_signing_request_is_valid(csr_bytes.val) THEN Return(FALSE)
       ELSE LET ca_chain_text == decode(ca_chain_bytes.val)
            IN IF ~ca_chain_text.ok
               THEN Raise(ca_chain_text.exc)
               ELSE LET ca_chain_list == parse_ca_chain(ca_chain_text.val)
                    IN Return(\A i \in 1..Len(ca_chain_list) :
                                  certificate_is_valid(encode(ca_chain_list[i])))

\* base64.b64decode(param).decode(): the text, or the exception raised.
DecodedText(param) ==
    LET bytes == b64decode(param)
    IN IF bytes.ok THEN decode(bytes.val) ELSE bytes

\* _on_provide_certificate_action passing the decoded texts on as they are,
\* the surrounding whitespace not stripped.
ProvideWithoutStrip(params) ==
    LET name == "provide_certificate_action"
        valid == _action_certificates_are_valid(
                     params.certificate, params.ca_certificate,
                     params.certificate_signing_request, params.ca_chain)
        ca_chain_text == DecodedText(params.ca_chain)
        csr == DecodedText(params.certificate_signing_request)
        certificate == DecodedText(params.certificate)
        ca_cert == DecodedText(params.ca_certificate)
        set == set_relation_certificate(
                   csr.val, certificate.val, ca_cert.val,
                   parse_ca_chain(ca_chain_text.val), params.relation_id)
        Unchanged(r) == [report |-> r, ledger |-> ledger]
    IN IF ~_relation_created("certificates")
       THEN Unchanged(Report(name, RELATION_NOT_CREATED, <<>>, "none", FALSE))
       ELSE IF ~valid.ok
       THEN Unchanged(Report(name, "none", <<>>, valid.exc, TRUE))
       ELSE IF ~valid.val
       THEN Unchanged(Report(name, INPUT_NOT_VALID, <<>>, "none", TRUE))
       ELSE IF ~set.ok
       THEN Unchanged(Report(name, RELATION_NOT_FOUND, <<>>, "none", TRUE))
       ELSE [report |-> Report(name, "none", <<PROVIDED>>, "none", TRUE),
             ledger |-> set.val]

\* _on_provide_certificate_action without the except clause turning the
\* library's error into a failure of the action.
ProvideWithoutExcept(params) ==
    LET name == "provide_certificate_action"
        valid == _action_certificates_are_valid(
                     params.certificate, params.ca_certificate,
                     params.certificate_signing_request, params.ca_chain)
        ca_chain_text == DecodedText(params.ca_chain)
        csr == DecodedText(params.certificate_signing_request)
        certificate == DecodedText(params.certificate)
        ca_cert == DecodedText(params.ca_certificate)
        set == set_relation_certificate(
                   Strip(csr.val), Strip(certificate.val), Strip(ca_cert.val),
                   parse_ca_chain(ca_chain_text.val), params.relation_id)
        Unchanged(r) == [report |-> r, ledger |-> ledger]
    IN IF ~_relation_created("certificates")
       THEN Unchanged(Report(name, RELATION_NOT_CREATED, <<>>, "none", FALSE))
       ELSE IF ~valid.ok
       THEN Unchanged(Report(name, "none", <<>>, valid.exc, TRUE))
       ELSE IF ~valid.val
       THEN Unchanged(Report(name, INPUT_NOT_VALID, <<>>, "none", TRUE))
       ELSE IF ~set.ok
       THEN Unchanged(Report(name, "none", <<>>, set.exc, TRUE))
       ELSE [report |-> Report(name, "none", <<PROVIDED>>, "none", TRUE),
             ledger |-> set.val]

\* _on_provide_certificate_action without the return that follows the
\* failure on invalid input: the handler goes on to the ledger.
ProvideWithoutReturn(params) ==
    LET name == "provide_certificate_action"
        valid == _action_certificates_are_valid(
                     params.certificate, params.ca_certificate,
                     params.certificate_signing_request, params.ca_chain)
        ca_chain_text == DecodedText(params.ca_chain)
        csr == DecodedText(params.certificate_signing_request)
        certificate == DecodedText(params.certificate)
        ca_cert == DecodedText(params.ca_certificate)
        set == set_relation_certificate(
                   Strip(csr.val), Strip(certificate.val), Strip(ca_cert.val),
                   parse_ca_chain(ca_chain_text.val), params.relation_id)
        Unchanged(r) == [report |-> r, ledger |-> ledger]
    IN IF ~_relation_created("certificates")
       THEN Unchanged(Report(name, RELATION_NOT_CREATED, <<>>, "none", FALSE))
       ELSE IF ~valid.ok
       THEN Unchanged(Report(name, "none", <<>>, valid.exc, TRUE))
       ELSE IF ~(ca_chain_text.ok /\ csr.ok /\ certificate.ok /\ ca_cert.ok)
       THEN Unchanged(Report(name, "none", <<>>, "UnicodeDecodeError", TRUE))
       ELSE IF ~set.ok
       THEN Unchanged(Report(name, RELATION_NOT_FOUND, <<>>, "none", TRUE))
       ELSE [report |-> Report(name, IF valid.val THEN "none" ELSE INPUT_NOT_VALID,
                               <<PROVIDED>>, "none", TRUE),
             ledger |-> set.val]

\* _on_provide_certificate_action attaching the certificate in every
\* existing relation once the relation id has been found, not in that
\* relation alone.
ProvideToEveryRelation(params) ==
    LET name == "provide_certificate_action"
        valid == _action_certificates_are_valid(
                     params.certificate, params.ca_certificate,
                     params.certificate_signing_request, params.ca_chain)
        ca_chain_text == DecodedText(params.ca_chain)
        csr == DecodedText(params.certificate_signing_request)
        certificate == DecodedText(params.certificate)
        ca_cert == DecodedText(params.ca_certificate)
        setIn(relation_id) ==
            set_relation_certificate(
                Strip(csr.val), Strip(certificate.val), Strip(ca_cert.val),
                parse_ca_chain(ca_chain_text.val), relation_id)
        Unchanged(r) == [report |-> r, ledger |-> ledger]
    IN IF ~_relation_created("certificates")
       THEN Unchanged(Report(name, RELATION_NOT_CREATED, <<>>, "none", FALSE))
       ELSE IF ~valid.ok
       THEN Unchanged(Report(name, "none", <<>>, valid.exc, TRUE))
       ELSE IF ~valid.val
       THEN Unchanged(Report(name, INPUT_NOT_VALID, <<>>, "none", TRUE))
       ELSE IF ~ca_chain_text.ok
       THEN Unchanged(Report(name, "none", <<>>, ca_chain_text.exc, TRUE))
       ELSE IF ~csr.ok
       THEN Unchanged(Report(name, "none", <<>>, csr.exc, TRUE))
       ELSE IF ~certificate.ok
       THEN Unchanged(Report(name, "none", <<>>, certificate.exc, TRUE))
       ELSE IF ~ca_cert.ok
       THEN Unchanged(Report(name, "none", <<>>, ca_cert.exc, TRUE))
       ELSE IF ~setIn(params.relation_id).ok
       THEN Unchanged(Report(name, RELATION_NOT_FOUND, <<>>, "none", TRUE))
       ELSE [report |-> Report(name, "none", <<PROVIDED>>, "none", TRUE),
             ledger |-> [q \in RelIds |->
                            IF setIn(q).ok THEN setIn(q).val[q] ELSE ledger[q]]]

\* _on_provide_certificate_action failing when the call found no
\* OUTSTANDING CSR to attach the certificate to.
ProvideFailsWithoutMatch(params) ==
    LET name == "provide_certificate_action"
        valid == _action_certificates_are_valid(
                     params.certificate, params.ca_certificate,
                     params.certificate_signing_request, params.ca_chain)
        ca_chain_text == DecodedText(params.ca_chain)
        csr == DecodedText(params.certificate_signing_request)
        certificate == DecodedText(params.certificate)
        ca_cert == DecodedText(params.ca_certificate)
        set == set_relation_certificate(
                   Strip(csr.val), Strip(certificate.val), Strip(ca_cert.val),
                   parse_ca_chain(ca_chain_text.val), params.relation_id)
        Unchanged(r) == [report |-> r, ledger |-> ledger]
    IN IF ~_relation_created("certificates")
       THEN Unchanged(Report(name, RELATION_NOT_CREATED, <<>>, "none", FALSE))
       ELSE IF ~valid.ok
       THEN Unchanged(Report(name, "none", <<>>, valid.exc, TRUE))
       ELSE IF ~valid.val
       THEN Unchanged(Report(name, INPUT_NOT_VALID, <<>>, "none", TRUE))
       ELSE IF ~ca_chain_text.ok
       THEN Unchanged(Report(name, "none", <<>>, ca_chain_text.exc, TRUE))
       ELSE IF ~csr.ok
       THEN Unchanged(Report(name, "none", <<>>, csr.exc, TRUE))
       ELSE IF ~certificate.ok
       THEN Unchanged(Report(name, "none", <<>>, certificate.exc, TRUE))
       ELSE IF ~ca_cert.ok
       THEN Unchanged(Report(name, "none", <<>>, ca_cert.exc, TRUE))
       ELSE IF ~set.ok \/ set.val = ledger
       THEN Unchanged(Report(name, RELATION_NOT_FOUND, <<>>, "none", TRUE))
       ELSE [report |-> Report(name, "none", <<PROVIDED>>, "none", TRUE),
             ledger |-> set.val]

\* TLSCertificatesOperatorCharm._on_provide_certificate_action: what the
\* handler reports and the ledger it leaves.
_on_provide_certificate_action(params) ==
    LET name == "provide_certificate_action"
        valid == _action_certificates_are_valid(
                     params.certificate, params.ca_certificate,
                     params.certificate_signing_request, params.ca_chain)
        ca_chain_text == DecodedText(params.ca_chain)
        csr == DecodedText(params.certificate_signing_request)
        certificate == DecodedText(params.certificate)
        ca_cert == DecodedText(params.ca_certificate)
        set == set_relation_certificate(
                   Strip(csr.val), Strip(certificate.val), Strip(ca_cert.val),
                   parse_ca_chain(ca_chain_text.val), params.relation_id)
        Unchanged(r) == [report |-> r, ledger |-> ledger]
    IN IF ~_relation_created("certificates")
       THEN Unchanged(Report(name, RELATION_NOT_CREATED, <<>>, "none", FALSE))
       ELSE IF ~valid.ok
       THEN Unchanged(Report(name, "none", <<>>, valid.exc, TRUE))
       ELSE IF ~valid.val
       THEN Unchanged(Report(name, INPUT_NOT_VALID, <<>>, "none", TRUE))
       ELSE IF ~ca_chain_text.ok
       THEN Unchanged(Report(name, "none", <<>>, ca_chain_text.exc, TRUE))
       ELSE IF ~csr.ok
       THEN Unchanged(Report(name, "none", <<>>, csr.exc, TRUE))
       ELSE IF ~certificate.ok
       THEN Unchanged(Report(name, "none", <<>>, certificate.exc, TRUE))
       ELSE IF ~ca_cert.ok
       THEN Unchanged(Report(name, "none", <<>>, ca_cert.exc, TRUE))
       ELSE IF ~set.ok
       THEN Unchanged(Report(name, RELATION_NOT_FOUND, <<>>, "none", TRUE))
       ELSE [report |-> Report(name, "none", <<PROVIDED>>, "none", TRUE),
             ledger |-> set.val]

\* _on_get_outstanding_certificate_requests_action listing every CSR of
\* every unit, the ones with a certificate too.
ListEveryCsr ==
    LET name == "get_outstanding_certificate_requests_action"
        all(g) == [unit |-> g.unit,
                   unit_csrs |-> [j \in 1..Len(g.unit_csrs) |-> g.unit_csrs[j].csr]]
    IN IF ~_relation_created("certificates")
       THEN Report(name, RELATION_NOT_CREATED, <<>>, "none", FALSE)
       ELSE Report(name, "none",
                   <<SelectSeq([i \in 1..Len(AllGroups) |-> all(AllGroups[i])],
                               LAMBDA g : g.unit_csrs # <<>>)>>, "none", FALSE)

\* TLSCertificatesOperatorCharm._on_get_outstanding_certificate_requests_action
_on_get_outstanding_certificate_requests_action ==
    LET name == "get_outstanding_certificate_requests_action"
    IN IF ~_relation_created("certificates")
       THEN Report(name, RELATION_NOT_CREATED, <<>>, "none", FALSE)
       ELSE Report(name, "none", <<get_requirer_csrs_with_no_certs>>, "none", FALSE)

\* TLSCertificatesOperatorCharm._on_get_certificate_request_action
_on_get_certificate_request_action(params) ==
    LET name == "get_certificate_request_action"
        csrs == get_requirer_csrs(params.relation_id)
    IN IF ~_relation_created("certificates")
       THEN Report(name, RELATION_NOT_CREATED, <<>>, "none", FALSE)
       ELSE IF ~csrs.ok
       THEN Report(name, "none", <<>>, csrs.exc, FALSE)
       ELSE Report(name, "none", <<csrs.val>>, "none", FALSE)

\* ---------------------------------------------------------------- inputs
Junk == Text(<<"junk">>, FALSE)
CertificateInputs == {NotB64, B64(NonUtf8), B64(Utf8(Junk)),
                      B64(Utf8(Text(<<"certX">>, TRUE))),
                      B64(Utf8(Text(<<"certY">>, FALSE)))}
CaCertificateInputs == {NotB64, B64(Utf8(Junk)), B64(Utf8(Text(<<"caX">>, TRUE)))}
CsrInputs == {NotB64, B64(Utf8(Junk)),
              B64(Utf8(Text(<<"csrA">>, TRUE))),
              B64(Utf8(Text(<<"csrB">>, FALSE)))}
CaChainInputs == {NotB64, B64(NonUtf8), B64(Utf8(Junk)),
                  B64(Utf8(Text(<<"caI", "junk", "caR">>, TRUE))),
                  B64(Utf8(Text(<<"caI", "pemBad">>, FALSE)))}

\* Every combination of the four inputs and a relation id.
AllParams ==
    [relation_id : AnyRelIds, certificate : CertificateInputs,
     ca_certificate : CaCertificateInputs,
     certificate_signing_request : CsrInputs, ca_chain : CaChainInputs]

\* Inputs of which at most the certificate is defective.
LedgerParams ==
    [relation_id : AnyRelIds, certificate : CertificateInputs \ {NotB64, B64(NonUtf8)},
     ca_certificate : {B64(Utf8(Text(<<"caX">>, TRUE)))},
     certificate_signing_request : CsrInputs \ {NotB64, B64(Utf8(Junk))},
     ca_chain : {B64(Utf8(Text(<<"caI", "junk", "caR">>, TRUE)))}]

\* --------------------------------------------------------------- actions
Init ==
    /\ leader \in BOOLEAN
    /\ pc = "start"
    /\ observers = {}
    /\ relations = <<>>
    /\ nextRel = 1
    /\ ledger = [r \in RelIds |-> <<>>]
    /\ status = Status("unset", 0)
    /\ event = NoEvent
    /\ report = NoReport

\* Events are delivered one at a time: nothing else happens while an action
\* waits for its handler.
Idle == pc # "start" /\ event = NoEvent

\* __init__ without the check of leadership.
ConstructWithoutLeaderCheck ==
    /\ pc = "start"
    /\ pc' = "ready"
    /\ observers' = Handlers
    /\ UNCHANGED <<leader, relations, nextRel, ledger, status, event, report>>

\* TLSCertificatesOperatorCharm.__init__
Construct ==
    /\ pc = "start"
    /\ IF ~leader
       THEN /\ pc' = "fatal"
            /\ observers' = {}
       ELSE /\ pc' = "ready"
            /\ observers' = Handlers
    /\ UNCHANGED <<leader, relations, nextRel, ledger, status, event, report>>

\* The host creates a certificates relation.
RelationCreated ==
    /\ Idle
    /\ nextRel <= MaxRelations
    /\ relations' = Append(relations, nextRel)
    /\ nextRel' = nextRel + 1
    /\ UNCHANGED <<leader, pc, observers, ledger, status, event>>
    /\ report' = NoReport

\* The host removes a relation, and its data with it.
RelationBroken(r) ==
    /\ Idle
    /\ \E i \in 1..Len(relations) : relations[i] = r
    /\ relations' = SelectSeq(relations, LAMBDA x : x # r)
    /\ ledger' = [ledger EXCEPT ![r] = <<>>]
    /\ UNCHANGED <<leader, pc, observers, nextRel, status, event>>
    /\ report' = NoReport

\* A requirer unit joins a relation.
UnitJoined(r, u) ==
    /\ Idle
    /\ \E i \in 1..Len(relations) : relations[i] = r
    /\ ~\E i \in 1..Len(ledger[r]) : ledger[r][i].unit = u
    /\ ledger' = [ledger EXCEPT ![r] = Append(@, [unit |-> u, unit_csrs |-> <<>>])]
    /\ UNCHANGED <<leader, pc, observers, relations, nextRel, status, event>>
    /\ report' = NoReport

\* TLSCertificatesOperatorCharm._on_install: the first hook of the unit.
OnInstall ==
    /\ Idle
    /\ "install" \in observers
    /\ status.message = "unset"
    /\ relations = <<>>
    /\ status' = Status(READY, 0)
    /\ report' = Report("install", "none", <<>>, "none", FALSE)
    /\ UNCHANGED <<leader, pc, observers, relations, nextRel, ledger, event>>

\* A requirer unit writes a CSR into its relation data, and the library
\* emits certificate_creation_request:
\* TLSCertificatesOperatorCharm._on_certificate_creation_request
RecordRequest(r, u, c) ==
    /\ Idle
    /\ EntryCount < MaxCsrs
    /\ \E i \in 1..Len(ledger[r]) :
          /\ ledger[r][i].unit = u
          /\ ledger' = [ledger EXCEPT ![r][i].unit_csrs =
                            Append(@, [csr |-> Text(<<c>>, FALSE), cert |-> NoCert])]
    /\ UNCHANGED <<leader, pc, observers, relations, nextRel, event>>
    /\ IF "certificate_creation_request" \in observers
       THEN /\ status' = Status(OUTSTANDING, Len(_get_outstanding_requests'))
            /\ report' = Report("certificate_creation_request",
                                "none", <<>>, "none", FALSE)
       ELSE /\ report' = NoReport
            /\ UNCHANGED status

\* The operator runs an action with some params.
RunAction(name, params) ==
    /\ Idle
    /\ event' = Event(name, params)
    /\ report' = NoReport
    /\ UNCHANGED <<leader, pc, observers, relations, nextRel, ledger, status>>

\* TLSCertificatesOperatorCharm.__init__ raises on a unit that is not the
\* leader: the action's hook fails before any handler runs.
InitRaises ==
    /\ event # NoEvent
    /\ event.name \notin observers
    /\ event' = NoEvent
    /\ report' = Report(event.name, "none", <<>>, "NotImplementedError", FALSE)
    /\ UNCHANGED <<leader, pc, observers, relations, nextRel, ledger, status>>

\* The handler of get-outstanding-certificate-requests taking the requests
\* it lists out of the relation data.
ListAndForget ==
    /\ event.name = "get_outstanding_certificate_requests_action"
    /\ event.name \in observers
    /\ event' = NoEvent
    /\ report' = _on_get_outstanding_certificate_requests_action
    /\ ledger' = [r \in RelIds |->
                     [i \in 1..Len(ledger[r]) |->
                        [ledger[r][i] EXCEPT !.unit_csrs = SelectSeq(@, LAMBDA e : ~IsOutstanding(e))]]]
    /\ UNCHANGED <<leader, pc, observers, relations, nextRel, status>>

OnGetOutstandingCertificateRequests ==
    /\ event.name = "get_outstanding_certificate_requests_action"
    /\ event.name \in observers
    /\ event' = NoEvent
    /\ report' = _on_get_outstanding_certificate_requests_action
    /\ UNCHANGED <<leader, pc, observers, relations, nextRel, ledger, status>>

OnGetCertificateRequest ==
    /\ event.name = "get_certificate_request_action"
    /\ event.name \in observers
    /\ event' = NoEvent
    /\ report' = _on_get_certificate_request_action(event.params)
    /\ UNCHANGED <<leader, pc, observers, relations, nextRel, ledger, status>>

\* The provide-certificate handler setting the status anew, with the number
\* of requests outstanding after a successful call.
ProvideAndRefreshStatus ==
    /\ event.name = "provide_certificate_action"
    /\ event.name \in observers
    /\ event' = NoEvent
    /\ report' = _on_provide_certificate_action(event.params).report
    /\ ledger' = _on_provide_certificate_action(event.params).ledger
    /\ UNCHANGED <<leader, pc, observers, relations, nextRel>>
    /\ status' = IF report'.results # <<>>
                 THEN Status(OUTSTANDING, Len(_get_outstanding_requests'))
                 ELSE status

OnProvideCertificate ==
    /\ event.name = "provide_certificate_action"
    /\ event.name \in observers
    /\ event' = NoEvent
    /\ report' = _on_provide_certificate_action(event.params).report
    /\ ledger' = _on_provide_certificate_action(event.params).ledger
    /\ UNCHANGED <<leader, pc, observers, relations, nextRel, status>>

\* The CSR texts requirer units submit: a request is recorded as it comes,
\* whether or not its text parses as a CSR.
RequestedCsrBodies == ValidCsrBodies \cup {"junk"}

Host ==
    \/ RelationCreated
    \/ \E r \in RelIds : RelationBroken(r)
    \/ \E r \in RelIds : \E u \in Units(r) : UnitJoined(r, u)
    \/ \E r \in RelIds : \E u \in Units(r) : \E c \in RequestedCsrBodies :
          RecordRequest(r, u, c)

Handle ==
    \/ Construct
    \/ OnInstall
    \/ InitRaises
    \/ OnGetOutstandingCertificateRequests
    \/ OnGetCertificateRequest
    \/ OnProvideCertificate

RunListAction ==
    \/ RunAction("get_outstanding_certificate_requests_action", NoParams)
    \/ \E r \in AnyRelIds :
          RunAction("get_certificate_request_action",
                    [NoParams EXCEPT !.relation_id = r])

Next ==
    \/ Host
    \/ Handle
    \/ RunListAction
    \/ \E p \in LedgerParams : RunAction("provide_certificate_action", p)

Spec == Init /\ [][Next]_vars

\* The same program under every combination of the action's inputs, the
\* host being kept to a small ledger.
SmallLedger ==
    /\ nextRel <= MaxInputRelations + 1
    /\ \A r \in RelIds : Len(ledger[r]) <= MaxInputUnits
    /\ EntryCount <= MaxInputCsrs

NextInputs ==
    \/ Host /\ SmallLedger'
    \/ Handle
    \/ RunListAction
    \/ \E p \in AllParams : RunAction("provide_certificate_action", p)

SpecInputs == Init /\ [][NextInputs]_vars

\* ------------------------------------------------- vocabulary of the claims
Exists(r) == \E i \in 1..Len(relations) : relations[i] = r

\* A step in which the handler of the named action runs on the pending event.
Handled(name) == event.name = name /\ name \in observers /\ event' = NoEvent
ProvideHandled == Handled("provide_certificate_action")

\* The text an input carries (of an input that decodes).
TextOf(param) == param.bytes.text

\* One of the validation steps of issue fails on the params.
ValidationFails(params) ==
    \/ ~params.certificate.b64
    \/ ~params.ca_certificate.b64
    \/ ~params.certificate_signing_request.b64
    \/ ~params.ca_chain.b64
    \/ ~certificate_is_valid(params.certificate.bytes)
    \/ ~certificate_is_valid(params.ca_certificate.bytes)
    \/ ~certificate_signing_request_is_valid(params.certificate_signing_request.bytes)
    \/ /\ params.ca_chain.bytes.utf8
       /\ \E i \in 1..Len(parse_ca_chain(TextOf(params.ca_chain))) :
             ~certificate_is_valid(Utf8(parse_ca_chain(TextOf(params.ca_chain))[i]))

\* The four inputs are base64 of a valid certificate, CA certificate and CSR
\* and of a chain text all of whose blocks are valid certificates.
InputsValid(params) ==
    /\ params.ca_chain.b64
    /\ params.ca_chain.bytes.utf8
    /\ ~ValidationFails(params)

Failed(r, message) == r.failed = message /\ r.results = <<>> /\ r.raised = "none"
Succeeded(r) == r.failed = "none" /\ r.results # <<>> /\ r.raised = "none"

SomeOutstanding ==
    \E r \in RelIds : \E i \in 1..Len(ledger[r]) :
        \E j \in 1..Len(ledger[r][i].unit_csrs) :
            IsOutstanding(ledger[r][i].unit_csrs[j])
SomeIssued ==
    \E r \in RelIds : \E i \in 1..Len(ledger[r]) :
        \E j \in 1..Len(ledger[r][i].unit_csrs) :
            ~IsOutstanding(ledger[r][i].unit_csrs[j])

C2_RecordThenAttach ==
    [][\A r \in RelIds :
        (/\ ProvideHandled
         /\ InputsValid(event.params)
         /\ event.params.relation_id = r
         /\ Exists(r))
          => \A i \in 1..Len(ledger[r]) : \A j \in 1..Len(ledger[r][i].unit_csrs) :
               LET u == ledger[r][i].unit
                   e == ledger[r][i].unit_csrs[j]
                   without == get_requirer_csrs_with_no_certs'
                   listed == get_requirer_csrs(r)'
               IN (/\ IsOutstanding(e)
                   /\ e.csr = Strip(TextOf(event.params.certificate_signing_request)))
                  => /\ report' = Report("provide_certificate_action", "none",
                                         <<PROVIDED>>, "none", TRUE)
                     /\ \A k \in 1..Len(without) :
                           without[k].unit = u
                             => \A m \in 1..Len(without[k].unit_csrs) :
                                   without[k].unit_csrs[m] # e.csr
                     /\ listed.ok
                     /\ listed.val[i].unit = u
                     /\ listed.val[i].unit_csrs[j] =
                          [csr |-> e.csr,
                           cert |-> Issued(
                               Strip(TextOf(event.params.certificate)),
                               Strip(TextOf(event.params.ca_certificate)),
                               parse_ca_chain(TextOf(event.params.ca_chain)))]]_vars

\* A certificate was provided with success, one CSR of the relation is
\* paired with it and another CSR is still outstanding.
C2_Witness ==
    /\ report.name = "provide_certificate_action"
    /\ Succeeded(report)
    /\ SomeIssued
    /\ SomeOutstanding

\* ------------------------------------------------------------------ C3
\* C3 as stated: provideCertificate with a relation id that names no
\* existing relation always ends with RelationNotFound and leaves the ledger
\* unchanged.
C3_AsStated ==
    [][(ProvideHandled /\ ~Exists(event.params.relation_id))
          => (Failed(report', RELATION_NOT_FOUND) /\ ledger' = ledger)]_vars

\* C3 amended: provideCertificate with a relation id that names no existing
\* relation, run with inputs that pass validation while some certificates
\* relation exists, ends with RelationNotFound and leaves the ledger of
\* every relation unchanged, also when the CSR is outstanding in another
\* relation.
C3_UnknownRelation ==
    [][(/\ ProvideHandled
        /\ ~Exists(event.params.relation_id)
        /\ relations # <<>>
        /\ InputsValid(event.params))
          => (Failed(report', RELATION_NOT_FOUND) /\ ledger' = ledger)]_vars

\* RelationNotFound was reported while both CSR texts the operator can
\* supply were outstanding in an existing relation.
C3_Witness ==
    /\ report.name = "provide_certificate_action"
    /\ Failed(report, RELATION_NOT_FOUND)
    /\ \A c \in ValidCsrBodies :
          \E r \in RelIds : \E i \in 1..Len(ledger[r]) :
          \E j \in 1..Len(ledger[r][i].unit_csrs) :
              /\ IsOutstanding(ledger[r][i].unit_csrs[j])
              /\ ledger[r][i].unit_csrs[j].csr = Text(<<c>>, FALSE)

\* ------------------------------------------------------------------ C4
\* Entry j of unit group i of relation r, in a ledger.
HasEntry(l, r, i, j) == i <= Len(l[r]) /\ j <= Len(l[r][i].unit_csrs)

\* C4: a CSR that is FULFILLED stays FULFILLED as long as its relation
\* exists, and a CSR that is OUTSTANDING stays OUTSTANDING as long as its
\* relation exists unless the step is a provideCertificate for that relation
\* and that CSR which reports Success.
C4_NoReverseTransition ==
    [][\A r \in RelIds : \A i \in 1..Len(ledger[r]) :
       \A j \in 1..Len(ledger[r][i].unit_csrs) :
          LET e == ledger[r][i].unit_csrs[j]
          IN Exists(r)'
             => /\ HasEntry(ledger', r, i, j)
                /\ ledger'[r][i].unit = ledger[r][i].unit
                /\ ledger'[r][i].unit_csrs[j].csr = e.csr
                /\ ~IsOutstanding(e) => ~IsOutstanding(ledger'[r][i].unit_csrs[j])
                /\ (IsOutstanding(e) /\ ~IsOutstanding(ledger'[r][i].unit_csrs[j]))
                     => /\ ProvideHandled
                        /\ event.params.relation_id = r
                        /\ InputsValid(event.params)
                        /\ Strip(TextOf(event.params.certificate_signing_request)) = e.csr
                        /\ report' = Report("provide_certificate_action", "none",
                                            <<PROVIDED>>, "none", TRUE)]_vars

\* A second provideCertificate was handled for a relation all of whose CSRs
\* were FULFILLED already.
C4_Witness ==
    /\ report.name = "provide_certificate_action"
    /\ Succeeded(report)
    /\ SomeIssued
    /\ ~SomeOutstanding
    /\ EntryCount = MaxCsrs

\* ------------------------------------------------------------------ C5
\* The handler reported exactly one explicit outcome: a failure with one of
\* the three messages and no result, or the result and no failure; and no
\* exception left it.
OneExplicitOutcome(r) ==
    /\ r.raised = "none"
    /\ \/ r.failed \in {RELATION_NOT_CREATED, INPUT_NOT_VALID, RELATION_NOT_FOUND}
          /\ r.results = <<>>
       \/ r.failed = "none" /\ r.results = <<PROVIDED>>

\* C5: whatever the four inputs and the ledger are, provideCertificate ends
\* with exactly one explicit outcome and no uncaught exception.
C5_NoUnhandledFault ==
    [][ProvideHandled => OneExplicitOutcome(report')]_vars

\* ------------------------------------------------------------------ C6
\* C6: the get-certificate-request action run with a relation id that names
\* no existing relation, while some relation exists, ends in a reported
\* failure of the action and not in an uncaught exception.
C6_NotFoundRecovered ==
    [][(/\ Handled("get_certificate_request_action")
        /\ ~Exists(event.params.relation_id)
        /\ relations # <<>>)
          => (report'.failed # "none" /\ report'.raised = "none")]_vars

\* ------------------------------------------------------------------ C7
Actions == {"get_outstanding_certificate_requests_action",
            "get_certificate_request_action", "provide_certificate_action"}

\* C7: while no certificates relation exists each of the three actions
\* fails with the "no relation exists yet" message, whatever its params
\* are; the message differs from the two other failure messages, no input is
\* decoded or validated and the ledger is unchanged.
C7_NoRelationYet ==
    [][\A name \in Actions :
        (Handled(name) /\ relations = <<>>)
          => /\ report' = Report(name, RELATION_NOT_CREATED, <<>>, "none", FALSE)
             /\ RELATION_NOT_CREATED \notin {INPUT_NOT_VALID, RELATION_NOT_FOUND}
             /\ ledger' = ledger
             /\ relations' = relations]_vars

\* provideCertificate was refused for want of a relation.
C7_Witness ==
    /\ report = Report("provide_certificate_action", RELATION_NOT_CREATED,
                       <<>>, "none", FALSE)
    /\ relations = <<>>

\* ------------------------------------------------------------------ C8
\* C8: on a unit that is not the leader no handler is ever registered:
\* construction ends in the fatal error, no handler reports anything, the
\* status is never written and no certificate is ever attached.
C8_SingleOwner ==
    ~leader
      => /\ observers = {}
         /\ pc \in {"start", "fatal"}
         /\ status = Status("unset", 0)
         /\ ~SomeIssued
         /\ report.failed = "none"
         /\ report.results = <<>>
         /\ ~report.validated
         /\ report.raised \in {"none", "NotImplementedError"}
         /\ report.name \notin {"install", "certificate_creation_request"}

\* On a unit that is not the leader a CSR was recorded and an action was
\* run, which ended in the error of construction.
C8_Witness ==
    /\ ~leader
    /\ pc = "fatal"
    /\ SomeOutstanding
    /\ report.name = "provide_certificate_action"
    /\ report.raised = "NotImplementedError"

\* ------------------------------------------------------------------ C9
\* The <<unit, CSR>> pairs of the OUTSTANDING entries of a sequence of unit
\* groups, group after group, entry after entry.
RECURSIVE OutstandingOf(_, _)
OutstandingOf(unit, entries) ==
    IF entries = <<>> THEN <<>>
    ELSE (IF Head(entries).cert.issued THEN <<>> ELSE <<<<unit, Head(entries).csr>>>>)
         \o OutstandingOf(unit, Tail(entries))
RECURSIVE OutstandingPairs(_)
OutstandingPairs(groups) ==
    IF groups = <<>> THEN <<>>
    ELSE OutstandingOf(Head(groups).unit, Head(groups).unit_csrs)
         \o OutstandingPairs(Tail(groups))

\* The <<unit, CSR>> pairs of a listing, in its order.
RECURSIVE ListedPairs(_)
ListedPairs(listing) ==
    IF listing = <<>> THEN <<>>
    ELSE [j \in 1..Len(Head(listing).unit_csrs) |->
             <<Head(listing).unit, Head(listing).unit_csrs[j]>>]
         \o ListedPairs(Tail(listing))

\* C9: the listing of outstanding requests holds, for every existing
\* relation, exactly the OUTSTANDING CSRs of its units, units in join order
\* and the CSRs of a unit in submission order, every unit in one group and
\* nothing of a relation that does not exist; and a CSR is listed as soon as
\* it is recorded.
C9_ListOutstanding ==
    [][/\ (Handled("get_outstanding_certificate_requests_action") /\ relations # <<>>)
          => /\ Succeeded(report')
             /\ LET listing == report'.results[1]
                IN /\ \A r \in RelIds :
                        ListedPairs(SelectSeq(listing, LAMBDA g : g.unit \in Units(r)))
                          = IF Exists(r) THEN OutstandingPairs(ledger[r]) ELSE <<>>
                   /\ \A k \in 1..Len(listing) :
                        /\ \E r \in RelIds : listing[k].unit \in Units(r)
                        /\ \A m \in 1..Len(listing) :
                              listing[k].unit = listing[m].unit => k = m
       /\ \A r \in RelIds : \A i \in 1..Len(ledger[r]) :
            (/\ HasEntry(ledger', r, i, 1)
             /\ Len(ledger'[r][i].unit_csrs) = Len(ledger[r][i].unit_csrs) + 1)
              => LET csrs == ledger'[r][i].unit_csrs
                     listing == get_requirer_csrs_with_no_certs'
                 IN \E k \in 1..Len(listing) :
                       /\ listing[k].unit = ledger[r][i].unit
                       /\ listing[k].unit_csrs[Len(listing[k].unit_csrs)]
                            = csrs[Len(csrs)].csr]_vars

\* The listing named two units of relation 1 in their join order, the unit
\* numbered 2 having joined first.
C9_Witness ==
    /\ report.name = "get_outstanding_certificate_requests_action"
    /\ Succeeded(report)
    /\ Len(report.results[1]) = 2
    /\ report.results[1][1].unit = <<1, 2>>
    /\ report.results[1][2].unit = <<1, 1>>

\* ----------------------------------------------------------------- C10
\* C10: the two listing actions leave the ledger, the relations and the
\* status as they are, and what the listing of outstanding requests reports
\* is what a second listing, run in the state it leaves, reports.
C10_ReadOnly ==
    [][/\ (\/ Handled("get_outstanding_certificate_requests_action")
           \/ Handled("get_certificate_request_action"))
          => (ledger' = ledger /\ relations' = relations /\ status' = status)
       /\ Handled("get_outstanding_certificate_requests_action")
          => report' = _on_get_outstanding_certificate_requests_action']_vars

\* Outstanding requests were listed, and there was one to list.
C10_Witness ==
    /\ report.name = "get_outstanding_certificate_requests_action"
    /\ Succeeded(report)
    /\ report.results[1] # <<>>
    /\ SomeIssued

\* ----------------------------------------------------------------- C11
\* The pairing the params of the pending provideCertificate would store.
Supplied ==
    Issued(Strip(TextOf(event.params.certificate)),
           Strip(TextOf(event.params.ca_certificate)),
           parse_ca_chain(TextOf(event.params.ca_chain)))

\* C11: a CSR entry is paired with at most one certificate: after a
\* provideCertificate that reports Success for a relation, every entry of
\* the relation that was FULFILLED already and has the CSR text supplied is
\* still there and holds one whole pairing, the one it had or the one
\* supplied, never two certificates or parts of both.
C11_AtMostOneCertificate ==
    [][\A r \in RelIds :
        (/\ ProvideHandled
         /\ Succeeded(report')
         /\ event.params.relation_id = r)
          => \A i \in 1..Len(ledger[r]) : \A j \in 1..Len(ledger[r][i].unit_csrs) :
               LET e == ledger[r][i].unit_csrs[j]
               IN (/\ ~IsOutstanding(e)
                   /\ e.csr = Strip(TextOf(event.params.certificate_signing_request)))
                  => /\ HasEntry(ledger', r, i, j)
                     /\ ledger'[r][i].unit_csrs[j]
                          \in {e, [e EXCEPT !.cert = Supplied]}]_vars

\* A provideCertificate with valid input is pending for a CSR of an existing
\* relation that is FULFILLED already, with a certificate other than the one
\* the CSR is paired with.
C11_Witness ==
    /\ event.name = "provide_certificate_action"
    /\ event.name \in observers
    /\ InputsValid(event.params)
    /\ \E r \in RelIds : \E i \in 1..Len(ledger[r]) :
       \E j \in 1..Len(ledger[r][i].unit_csrs) :
          LET e == ledger[r][i].unit_csrs[j]
          IN /\ Exists(r)
             /\ event.params.relation_id = r
             /\ ~IsOutstanding(e)
             /\ e.csr = Strip(TextOf(event.params.certificate_signing_request))
             /\ e.cert # Supplied

\* ----------------------------------------------------------------- C12
\* How many times a text occurs in a list of texts.
Occurrences(t, texts) == Cardinality({k \in 1..Len(texts) : texts[k] = t})

\* The CSRs a listing of outstanding requests holds for unit u.
ListedFor(u, listing) ==
    UnitCsrs(SelectSeq(listing, LAMBDA g : g.unit = u))

\* C12: a request of a unit is recorded as a new OUTSTANDING entry after the
\* entries the unit has, whether or not the unit has an entry with the same
\* CSR text already; the listing of outstanding requests then holds the text
\* once more for that unit, and the list the outstanding count is taken from
\* holds it once more and is one longer.
C12_NoDeduplication ==
    [][\A r \in RelIds : \A i \in 1..Len(ledger[r]) :
        LET before == ledger[r][i].unit_csrs
            u == ledger[r][i].unit
        IN (/\ Exists(r)
            /\ i <= Len(ledger'[r])
            /\ Len(ledger'[r][i].unit_csrs) = Len(before) + 1)
           => LET after == ledger'[r][i].unit_csrs
                  new == after[Len(after)]
              IN /\ SubSeq(after, 1, Len(before)) = before
                 /\ IsOutstanding(new)
                 /\ Occurrences(new.csr, ListedFor(u, get_requirer_csrs_with_no_certs'))
                      = Occurrences(new.csr, ListedFor(u, get_requirer_csrs_with_no_certs)) + 1
                 /\ Occurrences(new.csr, _get_outstanding_requests')
                      = Occurrences(new.csr, _get_outstanding_requests) + 1
                 /\ Len(_get_outstanding_requests') = Len(_get_outstanding_requests) + 1]_vars

\* A unit submitted the same CSR twice: it has two OUTSTANDING entries with
\* one text, and the list of outstanding requests holds the text twice.
C12_Witness ==
    /\ report.name = "certificate_creation_request"
    /\ \E r \in RelIds : \E i \in 1..Len(ledger[r]) :
          /\ Exists(r)
          /\ Len(ledger[r][i].unit_csrs) = 2
          /\ ledger[r][i].unit_csrs[1] = ledger[r][i].unit_csrs[2]
          /\ IsOutstanding(ledger[r][i].unit_csrs[2])
          /\ Occurrences(ledger[r][i].unit_csrs[2].csr, _get_outstanding_requests) = 2
    /\ status = Status(OUTSTANDING, 2)

\* ----------------------------------------------------------------- C13
\* The segments of a chain blob that lie between PEM delimiters, in the
\* order of the blob.
BlocksOf(param) == SelectSeq(TextOf(param).body, LAMBDA s : s \in PemBlocks)

\* C13: provideCertificate for an existing relation with a valid
\* certificate, CA certificate and CSR and a chain blob all of whose blocks
\* are valid reports Success, and the chain it attaches to the matching
\* OUTSTANDING CSR has the blocks of the blob, as many and in their order;
\* for a blob without any PEM delimiter that is the empty chain.
C13_ChainAsParsed ==
    [][\A r \in RelIds :
        (/\ ProvideHandled
         /\ InputsValid(event.params)
         /\ event.params.relation_id = r
         /\ Exists(r))
          => /\ Succeeded(report')
             /\ \A i \in 1..Len(ledger[r]) : \A j \in 1..Len(ledger[r][i].unit_csrs) :
                  LET e == ledger[r][i].unit_csrs[j]
                      blocks == BlocksOf(event.params.ca_chain)
                      chain == ledger'[r][i].unit_csrs[j].cert.chain
                  IN (/\ IsOutstanding(e)
                      /\ e.csr = Strip(TextOf(event.params.certificate_signing_request)))
                     => /\ HasEntry(ledger', r, i, j)
                        /\ ~IsOutstanding(ledger'[r][i].unit_csrs[j])
                        /\ Len(chain) = Len(blocks)
                        /\ \A k \in 1..Len(blocks) : chain[k] = Text(<<blocks[k]>>, FALSE)
                        /\ (\A k \in 1..Len(TextOf(event.params.ca_chain).body) :
                               TextOf(event.params.ca_chain).body[k] \notin PemBlocks)
                             => chain = <<>>]_vars

\* A certificate was provided with success and a CSR is paired with it and
\* an empty chain.
C13_Witness ==
    /\ report.name = "provide_certificate_action"
    /\ Succeeded(report)
    /\ \E r \in RelIds : \E i \in 1..Len(ledger[r]) :
       \E j \in 1..Len(ledger[r][i].unit_csrs) :
          /\ Exists(r)
          /\ ~IsOutstanding(ledger[r][i].unit_csrs[j])
          /\ ledger[r][i].unit_csrs[j].cert.chain = <<>>

\* ----------------------------------------------------------------- C14
\* C14: in every reachable state the certificate, the CA certificate and
\* every element of the chain stored with a CSR parse as certificates, and
\* the CSR they are stored with parses as a CSR: nothing is stored by an
\* action one of whose inputs fails validation.
C14_WellFormedPairings ==
    \A r \in RelIds : \A i \in 1..Len(ledger[r]) :
    \A j \in 1..Len(ledger[r][i].unit_csrs) :
        LET e == ledger[r][i].unit_csrs[j]
        IN ~IsOutstanding(e)
           => /\ certificate_is_valid(encode(e.cert.certificate))
              /\ certificate_is_valid(encode(e.cert.ca))
              /\ \A k \in 1..Len(e.cert.chain) :
                    certificate_is_valid(encode(e.cert.chain[k]))
              /\ certificate_signing_request_is_valid(encode(e.csr))

\* A certificate was provided with success and a CSR is paired with it and
\* a chain of two blocks.
C14_Witness ==
    /\ report.name = "provide_certificate_action"
    /\ Succeeded(report)
    /\ \E r \in RelIds : \E i \in 1..Len(ledger[r]) :
       \E j \in 1..Len(ledger[r][i].unit_csrs) :
          /\ Exists(r)
          /\ ~IsOutstanding(ledger[r][i].unit_csrs[j])
          /\ Len(ledger[r][i].unit_csrs[j].cert.chain) = 2

\* ----------------------------------------------------------------- C15
\* Relation q has an OUTSTANDING entry with CSR text t, in a ledger.
OutstandingIn(l, q, t) ==
    \E i \in 1..Len(l[q]) : \E j \in 1..Len(l[q][i].unit_csrs) :
        /\ IsOutstanding(l[q][i].unit_csrs[j])
        /\ l[q][i].unit_csrs[j].csr = t

\* C15: a provideCertificate that reports Success for relation r leaves the
\* ledger of every other relation as it was; when the CSR text supplied is
\* OUTSTANDING under r and under another relation q, no entry of r with the
\* text is OUTSTANDING afterwards and q still has its OUTSTANDING entry.
C15_ScopedToRelation ==
    [][\A r \in RelIds : \A q \in RelIds \ {r} :
        LET t == Strip(TextOf(event.params.certificate_signing_request))
        IN (/\ ProvideHandled
            /\ Succeeded(report')
            /\ event.params.relation_id = r)
           => /\ ledger'[q] = ledger[q]
              /\ (OutstandingIn(ledger, r, t) /\ OutstandingIn(ledger, q, t))
                   => /\ ~OutstandingIn(ledger', r, t)
                      /\ OutstandingIn(ledger', q, t)]_vars

\* A certificate was provided with success and two existing relations hold
\* one CSR text, FULFILLED under the one and OUTSTANDING under the other.
C15_Witness ==
    /\ report.name = "provide_certificate_action"
    /\ Succeeded(report)
    /\ \E r \in RelIds : \E q \in RelIds \ {r} :
       \E i \in 1..Len(ledger[r]) : \E j \in 1..Len(ledger[r][i].unit_csrs) :
          /\ Exists(r)
          /\ Exists(q)
          /\ ~IsOutstanding(ledger[r][i].unit_csrs[j])
          /\ OutstandingIn(ledger, q, ledger[r][i].unit_csrs[j].csr)

\* ----------------------------------------------------------------- C16
\* C16: provideCertificate checks that some relation exists, then validates
\* its input, then looks the relation id up: with no relation it reports
\* that none exists yet; with a relation, input that is not valid and a
\* relation id that names no relation it reports InvalidInput; and it
\* reports RelationNotFound for valid input only.
C16_FixedOrder ==
    [][ProvideHandled
       => /\ ~_relation_created(CERTIFICATES_RELATION)
               => Failed(report', RELATION_NOT_CREATED)
          /\ (/\ _relation_created(CERTIFICATES_RELATION)
              /\ ~InputsValid(event.params)
              /\ ~Exists(event.params.relation_id))
               => Failed(report', INPUT_NOT_VALID)
          /\ report'.failed = RELATION_NOT_FOUND
               => (InputsValid(event.params) /\ ~Exists(event.params.relation_id))]_vars

\* The order of C16 for every input but the one whose chain is base64 of
\* bytes that are not UTF-8 and whose other inputs are valid: on that input
\* the decoding of charm.py:200 raises before the relation id is looked up.
C16_OrderApartFromDecoding ==
    [][ProvideHandled
       => /\ ~_relation_created(CERTIFICATES_RELATION)
               => Failed(report', RELATION_NOT_CREATED)
          /\ (/\ _relation_created(CERTIFICATES_RELATION)
              /\ ValidationFails(event.params)
              /\ ~Exists(event.params.relation_id))
               => Failed(report', INPUT_NOT_VALID)
          /\ (/\ _relation_created(CERTIFICATES_RELATION)
              /\ ~InputsValid(event.params)
              /\ ~ValidationFails(event.params))
               => report'.raised = "UnicodeDecodeError"
          /\ report'.failed = RELATION_NOT_FOUND
               => (InputsValid(event.params) /\ ~Exists(event.params.relation_id))]_vars

\* ----------------------------------------------------------------- C17
\* C17: provideCertificate with valid input for an existing relation
\* reports Success; when no OUTSTANDING entry of the relation has the CSR
\* text supplied, the ledger is left as it was, no CSR changing state, and
\* the listing of outstanding requests is what it was before.
C17_SuccessWithoutMatch ==
    [][\A r \in RelIds :
        (/\ ProvideHandled
         /\ InputsValid(event.params)
         /\ event.params.relation_id = r
         /\ Exists(r))
          => /\ report' = Report("provide_certificate_action", "none",
                                 <<PROVIDED>>, "none", TRUE)
             /\ ~OutstandingIn(ledger, r,
                    Strip(TextOf(event.params.certificate_signing_request)))
                  => /\ ledger' = ledger
                     /\ get_requirer_csrs_with_no_certs' = get_requirer_csrs_with_no_certs]_vars

\* A certificate was provided with success while no CSR at all is paired
\* with a certificate and a CSR is outstanding: the call matched nothing.
C17_Witness ==
    /\ report.name = "provide_certificate_action"
    /\ Succeeded(report)
    /\ SomeOutstanding
    /\ ~SomeIssued

\* ----------------------------------------------------------------- C18
\* The OUTSTANDING entries of the existing relations, each named by its
\* relation, the place of its unit and its place among the unit's CSRs.
OutstandingEntries ==
    {x \in RelIds \X (1..MaxUnits) \X (1..MaxCsrs) :
        /\ Exists(x[1])
        /\ HasEntry(ledger, x[1], x[2], x[3])
        /\ IsOutstanding(ledger[x[1]][x[2]].unit_csrs[x[3]])}

\* C18: when the handler of a certificate-creation-request event has run,
\* the status is the outstanding-requests message with the number of
\* OUTSTANDING entries of all units of all relations: an entry with a
\* certificate is not counted, an entry that repeats a CSR text is.
C18_StatusCount ==
    report.name = "certificate_creation_request"
        => status = Status(OUTSTANDING, Cardinality(OutstandingEntries))

\* A request event was handled while another CSR was FULFILLED already: two
\* entries, and the status counts one.
C18_Witness ==
    /\ report.name = "certificate_creation_request"
    /\ EntryCount = 2
    /\ SomeIssued
    /\ status = Status(OUTSTANDING, 1)

\* ----------------------------------------------------------------- C19
\* C19: the handlers of the three actions leave the status as it is, and a
\* step that changes the status is the handling of the install event or of
\* a certificate-creation-request event; so the count in the status is not
\* lowered by a provideCertificate that reports Success.
C19_StatusFrame ==
    [][/\ (\/ Handled("get_outstanding_certificate_requests_action")
           \/ Handled("get_certificate_request_action")
           \/ ProvideHandled)
          => status' = status
       /\ status' # status
          => report'.name \in {"install", "certificate_creation_request"}]_vars

\* A certificate was provided with success and the status still counts more
\* outstanding requests than there are.
C19_Witness ==
    /\ report.name = "provide_certificate_action"
    /\ Succeeded(report)
    /\ status.message = OUTSTANDING
    /\ status.count > Cardinality(OutstandingEntries)
====
